---- MODULE Spec2Model ----
(***************************************************************************)
(* Model of the Notion importers (subir_mongo_notion.cjs and the Excel     *)
(* importer): property mapping, schema synchronisation, duplicate          *)
(* detection and the create / update / retry loops, run against a Notion   *)
(* database whose calls may fail.                                          *)
(***************************************************************************)
EXTENDS Integers, Sequences, FiniteSets, TLC

\* ------------------------------------------------------------------------
\* Bounds of the model
\* ------------------------------------------------------------------------
MaxRecords == 2
MaxPages == 2
MaxRuns == 2

\* Program constant: page size of a destination query
PAGE_SIZE == 100

Range(s) == {s[k] : k \in DOMAIN s}

\* ------------------------------------------------------------------------
\* Strings
\* ------------------------------------------------------------------------
RECURSIVE trim(_)
\* String.prototype.trim
trim(s) ==
  IF s = "" THEN ""
  ELSE IF SubSeq(s, 1, 1) = " " THEN trim(SubSeq(s, 2, Len(s)))
  ELSE IF SubSeq(s, Len(s), Len(s)) = " " THEN trim(SubSeq(s, 1, Len(s) - 1))
  ELSE s

\* position of the first separator in s, 0 if there is none
IndexOf(s, sep) ==
  LET at == {k \in 1..Len(s) : SubSeq(s, k, k) = sep}
  IN IF at = {} THEN 0 ELSE CHOOSE k \in at : \A j \in at : k <= j

RECURSIVE split(_, _)
\* String.prototype.split with a one-character separator
split(s, sep) ==
  LET k == IndexOf(s, sep)
  IN IF k = 0 THEN <<s>>
     ELSE <<SubSeq(s, 1, k - 1)>> \o split(SubSeq(s, k + 1, Len(s)), sep)

\* ------------------------------------------------------------------------
\* Source values (cells of a row, fields of a document)
\* ------------------------------------------------------------------------
Null == [t |-> "null", s |-> ""]
Str(x) == [t |-> "str", s |-> x]

\* String(value) of JavaScript on the modelled values
String(v) == IF v.t = "null" THEN "null" ELSE v.s

\* value !== undefined && value !== null, for entry[field]
HasValue(entry, field) == field \in DOMAIN entry /\ entry[field].t # "null"

\* value !== undefined && value !== null ? String(value) : ""
StringValue(entry, field) == IF HasValue(entry, field) THEN String(entry[field]) ELSE ""

AllHeaders == <<"name", "email", "tel", "note">>

\* the key sheet_to_json gives a column whose header cell is empty
EmptyHeaderKey == "__EMPTY"

\* the keys a row or a document can have, in column order
AllKeys == Append(AllHeaders, EmptyHeaderKey)
TitleValue == Str("n")
\* the rows / documents a source can hold: a key value that is present or
\* empty, and a second field that is present, empty or null
SourceRecords ==
  {[name |-> TitleValue, email |-> Str("a"), tel |-> Str("t")],
   [name |-> TitleValue, email |-> Str("a"), tel |-> Str("")],
   [name |-> TitleValue, email |-> Str("a"), tel |-> Null],
   [name |-> TitleValue, email |-> Str(""), tel |-> Str("t")]}

SourceData == UNION {[1..n -> SourceRecords] : n \in 1..MaxRecords}

\* readMongoDBHeaders: union of the keys of all documents, in first-seen order;
\* readSheetHeaders: the first row of the sheet
readHeaders(imp, d) ==
  IF imp = "excel" THEN AllHeaders
  ELSE SelectSeq(AllKeys, LAMBDA h : \E k \in DOMAIN d : h \in DOMAIN d[k])

\* ------------------------------------------------------------------------
\* Destination (Notion database): schema and pages
\* ------------------------------------------------------------------------
NoValue == "<null>"

\* an unset property of the given type, as the destination returns it
EmptyProperty(type) == [type |-> type, segs |-> <<>>, s |-> NoValue]

TextProperty(type, text) ==
  IF type \in {"title", "rich_text"}
  THEN [type |-> type, segs |-> IF text = "" THEN <<>> ELSE <<text>>, s |-> NoValue]
  ELSE [type |-> type, segs |-> <<>>, s |-> IF text = "" THEN NoValue ELSE text]

KeyTypes == {"rich_text", "email"}

InitialSchemas ==
  {[name |-> "title"]} \cup {[name |-> "title", email |-> kt] : kt \in KeyTypes}

PageEmailTexts == {"", "a"}

\* pages a database with the given schema can hold initially
InitialPageProps(schema) ==
  IF "email" \in DOMAIN schema
  THEN {[name |-> TextProperty("title", "p"), email |-> TextProperty(schema["email"], x)] :
          x \in PageEmailTexts}
  ELSE {[name |-> TextProperty("title", "p")]}

InitialPages(schema) ==
  UNION {{[k \in 1..n |-> [id |-> k, src |-> 0, properties |-> f[k]]] :
            f \in [1..n -> InitialPageProps(schema)]} : n \in 0..MaxPages}

\* the properties object of a page as a query returns it: one value per
\* property of the schema
PageProperties(schema, page) ==
  [p \in DOMAIN schema |->
     IF p \in DOMAIN page.properties /\ page.properties[p].type = schema[p]
     THEN page.properties[p] ELSE EmptyProperty(schema[p])]

\* ------------------------------------------------------------------------
\* Property Mapper
\* ------------------------------------------------------------------------
NoOverride == [h \in Range(AllKeys) |-> [newName |-> "", newType |-> ""]]
RenameTel == [NoOverride EXCEPT !["tel"] = [newName |-> "phone", newType |-> ""]]
OverrideChoices == {RenameTel}

\* the list the type prompt of mapProperties offers
propertyTypes ==
  <<"rich_text", "title", "number", "select", "multi_select", "date", "people", "files",
    "checkbox", "url", "email", "phone_number", "formula", "relation", "rollup",
    "created_time", "created_by", "last_edited_time", "last_edited_by", "status">>

\* answers of the customisation prompts: a type is one of propertyTypes
Retype(header, type) ==
  [NoOverride EXCEPT ![header] =
     [newName |-> "", newType |-> CHOOSE t \in Range(propertyTypes) : t = type]]
Rename(header, name) == [NoOverride EXCEPT ![header] = [newName |-> name, newType |-> ""]]

CustomizationChoices ==
  OverrideChoices \cup {Retype("name", "rich_text"), Retype("email", "title"),
                        Retype("tel", "number"), Rename("email", "name")}

\* the answers of the prompts of main, per importer
MapAnswers == {"1", "2"}
DuplicateAnswers == {"1", "2", "3"}
KeyFieldAnswers == {<<"email">>}

\* mapProperties: header -> {name, type}; currentProperties maps a property
\* name to its type, ov holds the answers of the customisation prompts
mapProperties(headers, currentProperties, customizationOption, titleField, ov) ==
  [header \in Range(headers) |->
     LET defaultType == IF header = titleField THEN "title" ELSE "rich_text"
         propertyType == IF header \in DOMAIN currentProperties /\ header # titleField
                         THEN currentProperties[header] ELSE defaultType
         customize == customizationOption = "2"
     IN [name |-> IF customize /\ ov[header].newName # "" THEN ov[header].newName ELSE header,
         type |-> IF customize /\ ov[header].newType # "" THEN ov[header].newType
                  ELSE propertyType]]

\* ------------------------------------------------------------------------
\* Schema Synchronizer
\* ------------------------------------------------------------------------
RECURSIVE KeysInOrder(_, _, _)
\* Object.keys of an object filled by walking headers: names that satisfy
\* keep, in insertion order, each once
KeysInOrder(headers, selectedProperties, keep) ==
  IF headers = <<>> THEN <<>>
  ELSE LET rest == KeysInOrder(SubSeq(headers, 1, Len(headers) - 1), selectedProperties, keep)
           propName == selectedProperties[headers[Len(headers)]].name
       IN IF propName \in keep /\ propName \notin Range(rest)
          THEN Append(rest, propName) ELSE rest

\* variant: the names of both sets are returned as new
propertiesToAddOrRetyped(headers, selectedProperties, currentProperties) ==
  KeysInOrder(headers, selectedProperties,
              {selectedProperties[h].name :
                 h \in {x \in Range(headers) :
                          \/ selectedProperties[x].name \notin DOMAIN currentProperties
                          \/ currentProperties[selectedProperties[x].name] # selectedProperties[x].type}})

\* propertiesToAdd: mapped names absent from the schema just read
propertiesToAdd(headers, selectedProperties, currentProperties) ==
  KeysInOrder(headers, selectedProperties,
              {selectedProperties[h].name : h \in Range(headers)} \ DOMAIN currentProperties)

\* propertiesToUpdate: mapped names present with a different type
propertiesToUpdate(headers, selectedProperties, currentProperties) ==
  KeysInOrder(headers, selectedProperties,
              {selectedProperties[h].name :
                 h \in {x \in Range(headers) :
                          /\ selectedProperties[x].name \in DOMAIN currentProperties
                          /\ currentProperties[selectedProperties[x].name] # selectedProperties[x].type}})

\* the type sent for a property name: the last header mapped to it wins
RequestedType(headers, selectedProperties, propName) ==
  LET ks == {k \in DOMAIN headers : selectedProperties[headers[k]].name = propName}
      last == CHOOSE k \in ks : \A j \in ks : j <= k
  IN selectedProperties[headers[last]].type

\* variant: the request carries the properties to add only
SchemaUpdateAddOnly(headers, selectedProperties, currentProperties) ==
  [p \in Range(KeysInOrder(headers, selectedProperties,
                           {selectedProperties[h].name : h \in Range(headers)}
                              \ DOMAIN currentProperties)) |->
     RequestedType(headers, selectedProperties, p)]

\* properties: { ...propertiesToAdd, ...propertiesToUpdate }
SchemaUpdateRequest(headers, selectedProperties, currentProperties) ==
  LET names == Range(propertiesToAdd(headers, selectedProperties, currentProperties))
               \cup Range(propertiesToUpdate(headers, selectedProperties, currentProperties))
  IN [p \in names |-> RequestedType(headers, selectedProperties, p)]

\* variant: the catch block returns the names computed so far
EnsureCatchKeepsNew(names) == names

\* what the catch block of ensurePropertiesExist yields for the new set
EnsureCatch(names) == <<>>

\* ------------------------------------------------------------------------
\* Value extraction and payloads
\* ------------------------------------------------------------------------
RECURSIVE Join(_)
\* segments.map(plain_text).join("")
Join(segs) == IF segs = <<>> THEN "" ELSE Head(segs) \o Join(Tail(segs))

RECURSIVE JoinWith(_, _)
\* Array.prototype.join(sep)
JoinWith(segs, sep) ==
  IF segs = <<>> THEN ""
  ELSE IF Len(segs) = 1 THEN Head(segs)
  ELSE Head(segs) \o sep \o JoinWith(Tail(segs), sep)

\* x || ""
OrEmpty(x) == IF x = NoValue THEN "" ELSE x

\* getPropertyValue, Mongo importer: four types are extracted
getPropertyValueMongo(property, type) ==
  CASE type = "url" -> OrEmpty(property.s)
    [] type = "phone_number" -> OrEmpty(property.s)
    [] type = "rich_text" -> Join(property.segs)
    [] type = "title" -> Join(property.segs)
    [] OTHER -> ""

\* getPropertyValue, Excel importer
getPropertyValueExcel(property, type) ==
  CASE type = "url" -> OrEmpty(property.s)
    [] type = "phone_number" -> OrEmpty(property.s)
    [] type = "rich_text" -> Join(property.segs)
    [] type = "title" -> Join(property.segs)
    [] type = "email" -> OrEmpty(property.s)
    [] type = "number" -> OrEmpty(property.s)
    [] type = "select" -> OrEmpty(property.s)
    [] type = "status" -> OrEmpty(property.s)
    [] type = "multi_select" -> JoinWith(property.segs, ",")
    [] type = "checkbox" -> IF property.s = "true" THEN "true" ELSE "false"
    [] OTHER -> ""

getPropertyValue(imp, property, type) ==
  IF imp = "mongo" THEN getPropertyValueMongo(property, type)
  ELSE getPropertyValueExcel(property, type)

PayloadKinds == {"title", "files", "date", "checkbox", "url", "email", "phone_number",
                 "number", "select", "status", "multi_select"}

\* buildPropertyPayload: the key of the payload object and the string it carries
buildPropertyPayload(propertyType, stringValue) ==
  [kind |-> IF propertyType \in PayloadKinds THEN propertyType ELSE "rich_text",
   s |-> stringValue]

\* variant: the tokens are kept as they are
multiSelectTagsUntrimmed(stringValue) == split(stringValue, ",")

\* the names of the multi_select payload:
\* stringValue.split(",").map((val) => ({ name: val.trim() }))
multiSelectTags(stringValue) ==
  LET tokens == split(stringValue, ",")
  IN [k \in DOMAIN tokens |-> trim(tokens[k])]

\* Object.entries(entry): the fields of the entry, in order
EntryFields(entry) == SelectSeq(AllKeys, LAMBDA h : h \in DOMAIN entry)

\* buildPagePayload(entry, selectedProperties).properties ; when two fields
\* are mapped to one name the later field of the entry overwrites

PayloadFor(entry, fields, selectedProperties) ==
  LET names == {selectedProperties[fields[k]].name : k \in DOMAIN fields}
  IN [p \in names |->
        LET ks == {k \in DOMAIN fields : selectedProperties[fields[k]].name = p}
            last == CHOOSE k \in ks : \A j \in ks : j <= k
            header == fields[last]
        IN buildPropertyPayload(selectedProperties[header].type, StringValue(entry, header))]

buildPagePayload(entry, selectedProperties) ==
  PayloadFor(entry, EntryFields(entry), selectedProperties)

\* const { name, type } = selectedProperties[header] throws a TypeError for
\* a field of the entry that has no mapping
buildPagePayloadThrows(entry, selectedProperties) ==
  \E header \in DOMAIN entry : header \notin DOMAIN selectedProperties

\* variant: a block for every field of type files, whatever its value
buildPageChildrenAnyValue(entry, selectedProperties) ==
  LET files == SelectSeq(EntryFields(entry), LAMBDA h : selectedProperties[h].type = "files")
  IN [k \in 1..Len(files) |->
        [type |-> "image", field |-> files[k], url |-> StringValue(entry, files[k])]]

\* buildPagePayload(entry, selectedProperties).children: one image block per
\* field of type files with a non-empty string value, in the order of the entry
buildPageChildren(entry, selectedProperties) ==
  LET files == SelectSeq(EntryFields(entry), LAMBDA h :
                  selectedProperties[h].type = "files" /\ StringValue(entry, h) # "")
  IN [k \in 1..Len(files) |->
        [type |-> "image", field |-> files[k], url |-> StringValue(entry, files[k])]]

\* variant: the filter on newProperties is missing
UpdateFieldsUnfiltered(entry, updateOnlyNewProperties, newProperties) == EntryFields(entry)

\* the fields of entry that updateDuplicateRecords writes
UpdateFields(entry, updateOnlyNewProperties, newProperties) ==
  SelectSeq(EntryFields(entry),
            LAMBDA header : ~(updateOnlyNewProperties /\ header \notin Range(newProperties)))

\* propertiesToUpdate of updateDuplicateRecords
UpdatePayload(entry, updateOnlyNewProperties, newProperties, selectedProperties) ==
  PayloadFor(entry, UpdateFields(entry, updateOnlyNewProperties, newProperties),
             selectedProperties)

\* ------------------------------------------------------------------------
\* Duplicate Resolver
\* ------------------------------------------------------------------------
NoType == ""

\* propertyTypeMap[field] = currentProperties[field]?.type || null
propertyTypeMap(fields, currentProperties) ==
  [f \in Range(fields) |-> IF f \in DOMAIN currentProperties THEN currentProperties[f] ELSE NoType]

\* variant: an entry is set only when the key is absent
MapSetIfAbsent(m, key, id) ==
  [x \in DOMAIN m \cup {key} |-> IF x \in DOMAIN m THEN m[x] ELSE id]

\* Map.prototype.set
MapSet(m, key, id) == [x \in DOMAIN m \cup {key} |-> IF x = key THEN id ELSE m[x]]

\* variant: every type with a scalar form is extracted
ExtractedValueAllTypes(imp, record, field, types) ==
  IF field \in DOMAIN record.properties /\ types[field] # NoType
  THEN getPropertyValueExcel(record.properties[field], types[field])
  ELSE ""

\* the value the scan extracts from a destination record for a key field
\* ("" when the property or its type is missing)
ExtractedValue(imp, record, field, types) ==
  IF field \in DOMAIN record.properties /\ types[field] # NoType
  THEN getPropertyValue(imp, record.properties[field], types[field])
  ELSE ""

RECURSIVE existingValuesMap(_, _, _, _)
\* the maps filled by the loop over allRecords: field -> (value -> record id)
existingValuesMap(imp, allRecords, fields, types) ==
  IF allRecords = <<>> THEN [f \in Range(fields) |-> <<>>]
  ELSE LET before == existingValuesMap(imp, SubSeq(allRecords, 1, Len(allRecords) - 1), fields, types)
           record == allRecords[Len(allRecords)]
       IN [f \in Range(fields) |->
             LET value == ExtractedValue(imp, record, f, types)
             IN IF value # "" THEN MapSet(before[f], value, record.id) ELSE before[f]]

\* variant: the last key field that hits decides
MatchingFieldLast(doc, fields, index) ==
  LET hits == {k \in DOMAIN fields :
                 HasValue(doc, fields[k]) /\ String(doc[fields[k]]) \in DOMAIN index[fields[k]]}
  IN IF hits = {} THEN 0 ELSE CHOOSE k \in hits : \A j \in hits : j <= k

\* position in duplicateCheckFields of the first field that hits, 0 if none
MatchingField(doc, fields, index) ==
  LET hits == {k \in DOMAIN fields :
                 HasValue(doc, fields[k]) /\ String(doc[fields[k]]) \in DOMAIN index[fields[k]]}
  IN IF hits = {} THEN 0 ELSE CHOOSE k \in hits : \A j \in hits : k <= j

isDuplicate(doc, fields, index) == MatchingField(doc, fields, index) # 0

duplicateRecordId(doc, fields, index) ==
  LET f == fields[MatchingField(doc, fields, index)] IN index[f][String(doc[f])]

\* variant: the test against the empty string is missing
hasNewPropertyValuesNoEmptyTest(doc, newProperties) ==
  \E prop \in Range(newProperties) : prop \in DOMAIN doc /\ doc[prop].t # "null"

\* hasNewPropertyValues
hasNewPropertyValues(doc, newProperties) ==
  \E prop \in Range(newProperties) :
     prop \in DOMAIN doc /\ doc[prop].t # "null" /\ doc[prop] # Str("")

Indices(d) == [k \in 1..Len(d) |-> k]

\* variant: every duplicate is listed twice
duplicatesForUpdateTwice(d, fields, index, option, newProperties) ==
  LET chosen == SelectSeq(Indices(d), LAMBDA k :
                   /\ isDuplicate(d[k], fields, index)
                   /\ option = "2"
                   /\ hasNewPropertyValues(d[k], newProperties))
  IN [j \in 1..(2 * Len(chosen)) |->
        [recordId |-> duplicateRecordId(d[chosen[(j + 1) \div 2]], fields, index),
         entry |-> chosen[(j + 1) \div 2],
         updateOnlyNewProperties |-> TRUE]]

\* duplicatesForUpdate: entries are referred to by their position in data
duplicatesForUpdate(d, fields, index, option, newProperties) ==
  LET chosen == SelectSeq(Indices(d), LAMBDA k :
                   /\ isDuplicate(d[k], fields, index)
                   /\ option = "2"
                   /\ hasNewPropertyValues(d[k], newProperties))
  IN [j \in 1..Len(chosen) |->
        [recordId |-> duplicateRecordId(d[chosen[j]], fields, index),
         entry |-> chosen[j],
         updateOnlyNewProperties |-> TRUE]]

\* variant: a record that repeats a key value of an earlier record is left out
nonDuplicatesToAddDedup(d, fields, index) ==
  SelectSeq(Indices(d), LAMBDA k :
     /\ ~isDuplicate(d[k], fields, index)
     /\ ~\E j \in 1..(k - 1), f \in Range(fields) :
           /\ HasValue(d[k], f) /\ HasValue(d[j], f)
           /\ String(d[k][f]) = String(d[j][f]))

\* variant: duplicates are not left out of the create batch
nonDuplicatesToAddAll(d, fields, index) == Indices(d)

\* nonDuplicatesToAdd
nonDuplicatesToAdd(d, fields, index) ==
  SelectSeq(Indices(d), LAMBDA k : ~isDuplicate(d[k], fields, index))

\* variant: the first record is left out
AllRecordsButFirst(d) == Tail(Indices(d))

\* duplicateOption === "3": addNonDuplicateRecords(data, ...)
AllRecordsToAdd(d) == Indices(d)

\* ------------------------------------------------------------------------
\* main: answers of the prompts
\* ------------------------------------------------------------------------
\* the option main keeps from an accepted answer: the Excel importer stores
\* ans.trim(), the Mongo importer stores the answer as it was typed
MainReadOption(imp, answer) == IF imp = "excel" THEN trim(answer) ELSE answer

\* fields.split(",").map(trim).filter(f => f).filter(f => headers.includes(f))
MainKeyFields(answer, option, headers) ==
  IF option \in {"1", "2"}
  THEN SelectSeq(answer, LAMBDA f : f # "" /\ f \in Range(headers))
  ELSE <<>>

\* duplicateOption = "3" when no valid key field was entered
MainDuplicateOption(option, fields) ==
  IF option \in {"1", "2"} /\ fields = <<>> THEN "3" ELSE option

\* ------------------------------------------------------------------------
\* Control flow helpers
\* ------------------------------------------------------------------------
\* after the first create pass: retry only when something failed
AfterFirstPass(failed) == IF failed # <<>> THEN "retry" ELSE "done"

\* after the update batch: create batch when non-empty
AfterUpdates(toAdd) == IF toAdd # <<>> THEN "create" ELSE "done"

\* variant: the create batch is written without the update batch before it
AfterPartitionCreateFirst(option, toUpdate, toAdd) == AfterUpdates(toAdd)

\* the batch written first after the partition
AfterPartition(option, toUpdate, toAdd) ==
  IF option = "2" /\ toUpdate # <<>> THEN "update" ELSE AfterUpdates(toAdd)

\* variant: a failed record is retried before the next record is attempted
CreateLoopRetryAtOnce(idx, n, failed) ==
  IF failed # <<>> THEN [pc |-> "retry", i |-> Len(failed)]
  ELSE IF idx < n THEN [pc |-> "create", i |-> idx + 1]
  ELSE [pc |-> "done", i |-> 1]

\* the first loop of addNonDuplicateRecords after iteration idx of n: the
\* next iteration, or the end of the pass
CreateLoopNext(idx, n, failed) ==
  IF idx < n THEN [pc |-> "create", i |-> idx + 1]
  ELSE [pc |-> AfterFirstPass(failed), i |-> 1]

\* variant: a failed read of the destination is logged and the run goes on
AfterReadErrorContinue(next) == next

\* fetchAllRecords and the schema read of exportToNotion have no handler: the
\* error reaches the catch block of main
AfterReadError(next) == "fatal"

\* variant: a failed write ends the run in the handler of main
AfterWriteErrorAbort(next) == "fatal"

\* the catch blocks around pages.create / pages.update: the loop goes on
AfterWriteError(next) == next

\* variant: the retry pass walks the whole batch
RetryWholeBatch(failed, toAdd) == toAdd

\* the records of the retry pass
RetryBatch(failed, toAdd) == failed

\* ------------------------------------------------------------------------
\* Messages of the run that carry a number
\* ------------------------------------------------------------------------
\* "Se encontraron N registros duplicados para actualizar", "Agregando N
\* registros no duplicados", and the warning after the retry pass
RunReport(toUpdate, toAdd, stillFailed) ==
  [toUpdate |-> Len(toUpdate), toAdd |-> Len(toAdd), exportWarning |-> stillFailed # <<>>]

\* ------------------------------------------------------------------------
\* Destination behaviour for queries
\* ------------------------------------------------------------------------
\* the number of results of one response: page_size at most, fewer when the
\* destination chooses to return fewer
ResponseSize(pageSize, limit) == IF limit < pageSize THEN limit ELSE pageSize

\* databases.query from start_cursor (0: none): the next pages in order, and
\* has_more with a next_cursor when pages remain (0: null)
QueryResponse(schema, pages, cursor, size) ==
  LET last == IF cursor + size < Len(pages) THEN cursor + size ELSE Len(pages)
      more == last < Len(pages)
  IN [results |-> [k \in 1..(last - cursor) |->
                     [id |-> pages[cursor + k].id,
                      properties |-> PageProperties(schema, pages[cursor + k])]],
      has_more |-> more,
      next_cursor |-> IF more THEN last ELSE 0]

\* variant: the query loop stops after the first response
FetchLoopOnce(more) == "types"

\* while (hasMore): another query, or the return of fetchAllRecords
FetchLoopNext(more) == IF more THEN "fetch" ELSE "types"

\* ------------------------------------------------------------------------
\* Destination behaviour for writes
\* ------------------------------------------------------------------------
\* a page write is accepted only if every property exists with that type
NotionAccepts(schema, payload) ==
  \A p \in DOMAIN payload : p \in DOMAIN schema /\ schema[p] = payload[p].kind

StoredProperties(payload) ==
  [p \in DOMAIN payload |-> TextProperty(payload[p].kind, payload[p].s)]

Overlay(new, old) == [p \in DOMAIN new \cup DOMAIN old |-> IF p \in DOMAIN new THEN new[p] ELSE old[p]]

Call(op, rec, attempt, ok, page, fields, props) ==
  [op |-> op, rec |-> rec, attempt |-> attempt, ok |-> ok, page |-> page,
   fields |-> fields, props |-> props, children |-> <<>>,
   cursor |-> 0, next |-> 0, more |-> FALSE]

\* ------------------------------------------------------------------------
\* State
\* ------------------------------------------------------------------------
VARIABLES
  importer,             \* "mongo" or "excel"
  data,                 \* the source records, in source order
  headers,
  titleField,
  duplicateOption,
  duplicateCheckFields,
  mapOption,
  overrides,            \* answers of the customisation prompts
  answers,              \* the answers typed at the prompts of main
  notionEnv,            \* how the destination answers: results per response, lost replies
  probe,                \* a function of the importers and the arguments it is applied to
  result,               \* what the function returned
  dbSchema,             \* destination: property name -> type
  dbPages,              \* destination: pages, id = position
  pc,
  run,
  pagesAtStart,         \* number of destination pages when the run started
  selectedProperties,
  currentProps,         \* schema read by ensurePropertiesExist
  newProps,
  newProperties,
  allRecords,
  hasMore,
  startCursor,
  typeMap,
  existingMaps,
  duplicatesToUpdate,
  recordsToAdd,
  i,
  failedRecords,
  stillFailedRecords,
  calls,                \* the destination calls of the run, in order
  faults                \* some destination call has failed since the first run began

inputs == <<importer, data, headers, titleField, duplicateOption, duplicateCheckFields,
            mapOption, overrides, answers, notionEnv, probe, result>>
scan == <<allRecords, hasMore, startCursor, typeMap, existingMaps>>
batches == <<duplicatesToUpdate, recordsToAdd>>
sync == <<selectedProperties, currentProps, newProps, newProperties>>
loops == <<i, failedRecords, stillFailedRecords>>
vars == <<inputs, dbSchema, dbPages, pc, run, pagesAtStart, sync, scan, batches, loops, calls,
          faults>>

Importers == {"mongo", "excel"}

\* a destination that returns a full page per query and whose replies arrive
ReliableNotion == [responseLimit |-> PAGE_SIZE, lostReplies |-> FALSE]

NoProbe == [fn |-> "none"]
NoResult == [fn |-> "none"]

RunStart ==
  /\ pc = "main"
  /\ probe = NoProbe
  /\ result = NoResult
  /\ selectedProperties = <<>>
  /\ currentProps = <<>>
  /\ newProps = <<>>
  /\ newProperties = <<>>
  /\ allRecords = <<>>
  /\ hasMore = TRUE
  /\ startCursor = 0
  /\ typeMap = <<>>
  /\ existingMaps = <<>>
  /\ duplicatesToUpdate = <<>>
  /\ recordsToAdd = <<>>
  /\ i = 1
  /\ failedRecords = <<>>
  /\ stillFailedRecords = <<>>
  /\ calls = <<>>

InitWith(importers, mapAnswers, dupAnswers) ==
  /\ importer \in importers
  /\ data \in SourceData
  /\ headers = readHeaders(importer, data)
  /\ titleField = "name"
  /\ mapOption \in mapAnswers
  /\ \E option \in dupAnswers, fields \in KeyFieldAnswers :
        /\ answers = [duplicate |-> option, keyFields |-> fields, map |-> mapOption]
        /\ duplicateCheckFields = MainKeyFields(fields, option, headers)
        /\ duplicateOption = MainDuplicateOption(option, duplicateCheckFields)
  /\ overrides \in IF mapOption = "2" THEN OverrideChoices ELSE {NoOverride}
  /\ notionEnv = ReliableNotion
  /\ dbSchema \in InitialSchemas
  /\ dbPages \in InitialPages(dbSchema)
  /\ run = 1
  /\ pagesAtStart = Len(dbPages)
  /\ faults = FALSE
  /\ RunStart

Log(c) == calls' = Append(calls, c) /\ faults' = (faults \/ ~c.ok)
NoCall(op) == Call(op, 0, 0, FALSE, 0, {}, <<>>)

\* main: schema read, then mapProperties
MainMapProperties ==
  /\ pc = "main"
  /\ \/ /\ Log([NoCall("retrieve") EXCEPT !.ok = TRUE])
        /\ selectedProperties' = mapProperties(headers, dbSchema, mapOption, titleField, overrides)
        /\ pc' = "ensure"
     \/ /\ Log(NoCall("retrieve"))
        /\ pc' = "fatal"
        /\ UNCHANGED selectedProperties
  /\ UNCHANGED <<inputs, dbSchema, dbPages, run, pagesAtStart, currentProps, newProps,
                 newProperties, scan, batches, loops>>

\* ensurePropertiesExist up to its schema-update request
EnsureRetrieve ==
  /\ pc = "ensure"
  /\ \/ /\ Log([NoCall("ensureRetrieve") EXCEPT !.ok = TRUE])
        /\ currentProps' = dbSchema
        /\ newProps' = propertiesToAdd(headers, selectedProperties, dbSchema)
        /\ IF newProps' # <<>> \/ propertiesToUpdate(headers, selectedProperties, dbSchema) # <<>>
           THEN pc' = "ensureUpdate" /\ UNCHANGED newProperties
           ELSE pc' = "export" /\ newProperties' = newProps'
     \/ /\ Log(NoCall("ensureRetrieve"))
        /\ newProperties' = EnsureCatch(newProps)
        /\ pc' = "export"
        /\ UNCHANGED <<currentProps, newProps>>
  /\ UNCHANGED <<inputs, dbSchema, dbPages, run, pagesAtStart, selectedProperties,
                 scan, batches, loops>>

\* the batched schema-update request of ensurePropertiesExist
EnsureUpdate ==
  /\ pc = "ensureUpdate"
  /\ LET request == SchemaUpdateRequest(headers, selectedProperties, currentProps)
     IN \/ /\ Log([NoCall("schemaUpdate") EXCEPT !.ok = TRUE, !.fields = DOMAIN request])
           /\ dbSchema' = Overlay(request, dbSchema)
           /\ newProperties' = newProps
        \/ /\ Log([NoCall("schemaUpdate") EXCEPT !.fields = DOMAIN request])
           /\ newProperties' = EnsureCatch(newProps)
           /\ UNCHANGED dbSchema
  /\ pc' = "export"
  /\ UNCHANGED <<inputs, dbPages, run, pagesAtStart, selectedProperties, currentProps,
                 newProps, scan, batches, loops>>

\* exportToNotion with duplicateOption "3"
ExportNone ==
  /\ pc = "export"
  /\ duplicateOption = "3"
  /\ recordsToAdd' = AllRecordsToAdd(data)
  /\ pc' = AfterUpdates(recordsToAdd')
  /\ UNCHANGED <<inputs, dbSchema, dbPages, run, pagesAtStart, sync, scan,
                 duplicatesToUpdate, loops, calls, faults>>

\* one query of fetchAllRecords
FetchAllRecords ==
  /\ \/ pc = "export" /\ duplicateOption # "3"
     \/ pc = "fetch"
  /\ \/ /\ LET response == QueryResponse(dbSchema, dbPages, startCursor,
                                           ResponseSize(PAGE_SIZE, notionEnv.responseLimit))
           IN /\ allRecords' = allRecords \o response.results
              /\ hasMore' = response.has_more
              /\ startCursor' = response.next_cursor
              /\ Log([NoCall("query") EXCEPT !.ok = TRUE, !.cursor = startCursor,
                                             !.next = response.next_cursor,
                                             !.more = response.has_more])
        /\ pc' = FetchLoopNext(hasMore')
     \/ /\ Log([NoCall("query") EXCEPT !.cursor = startCursor])
        /\ pc' = AfterReadError(FetchLoopNext(FALSE))
        /\ UNCHANGED <<allRecords, hasMore, startCursor>>
  /\ UNCHANGED <<inputs, dbSchema, dbPages, run, pagesAtStart, sync, typeMap, existingMaps,
                 batches, loops>>

\* exportToNotion: schema read, index, partition of data
ExportPartition ==
  /\ pc = "types"
  /\ \/ /\ Log([NoCall("exportRetrieve") EXCEPT !.ok = TRUE])
        /\ typeMap' = propertyTypeMap(duplicateCheckFields, dbSchema)
        /\ existingMaps' = existingValuesMap(importer, allRecords, duplicateCheckFields, typeMap')
        /\ duplicatesToUpdate' = duplicatesForUpdate(data, duplicateCheckFields, existingMaps',
                                                     duplicateOption, newProperties)
        /\ recordsToAdd' = nonDuplicatesToAdd(data, duplicateCheckFields, existingMaps')
        /\ pc' = AfterPartition(duplicateOption, duplicatesToUpdate', recordsToAdd')
     \/ /\ Log(NoCall("exportRetrieve"))
        /\ pc' = AfterReadError("done")
        /\ UNCHANGED <<typeMap, existingMaps, batches>>
  /\ UNCHANGED <<inputs, dbSchema, dbPages, run, pagesAtStart, sync, allRecords, hasMore,
                 startCursor, loops>>

\* one iteration of updateDuplicateRecords
UpdateRecord ==
  /\ pc = "update"
  /\ LET dup == duplicatesToUpdate[i]
         entry == data[dup.entry]
         fields == UpdateFields(entry, dup.updateOnlyNewProperties, newProperties)
         payload == UpdatePayload(entry, dup.updateOnlyNewProperties, newProperties,
                                  selectedProperties)
         next == IF i < Len(duplicatesToUpdate) THEN "update" ELSE AfterUpdates(recordsToAdd)
     IN /\ \/ /\ NotionAccepts(dbSchema, payload)
              /\ Log(Call("update", dup.entry, 1, TRUE, dup.recordId, Range(fields), payload))
              /\ dbPages' = [dbPages EXCEPT ![dup.recordId].properties =
                                               Overlay(StoredProperties(payload), @)]
              /\ pc' = next
           \/ /\ Log(Call("update", dup.entry, 1, FALSE, dup.recordId, Range(fields), payload))
              /\ pc' = AfterWriteError(next)
              /\ UNCHANGED dbPages
        /\ i' = IF i < Len(duplicatesToUpdate) THEN i + 1 ELSE 1
  /\ UNCHANGED <<inputs, dbSchema, run, pagesAtStart, sync, scan, batches,
                 failedRecords, stillFailedRecords>>

\* one iteration of the first loop of addNonDuplicateRecords
CreateRecord ==
  /\ pc = "create"
  /\ \/ /\ buildPagePayloadThrows(data[recordsToAdd[i]], selectedProperties)
        /\ pc' = "fatal"
        /\ UNCHANGED <<dbPages, failedRecords, i, calls, faults>>
     \/ /\ ~buildPagePayloadThrows(data[recordsToAdd[i]], selectedProperties)
        /\ LET entry == recordsToAdd[i]
               payload == buildPagePayload(data[entry], selectedProperties)
               children == buildPageChildren(data[entry], selectedProperties)
               created == [id |-> Len(dbPages) + 1, src |-> entry,
                           properties |-> StoredProperties(payload)]
           IN \/ /\ NotionAccepts(dbSchema, payload)
                 /\ Log([Call("create", entry, 1, TRUE, Len(dbPages) + 1, DOMAIN data[entry], payload)
                          EXCEPT !.children = children])
                 /\ dbPages' = Append(dbPages, created)
                 /\ UNCHANGED failedRecords
                 /\ pc' = CreateLoopNext(i, Len(recordsToAdd), failedRecords).pc
              \/ /\ Log([Call("create", entry, 1, FALSE, 0, DOMAIN data[entry], payload)
                          EXCEPT !.children = children])
                 /\ failedRecords' = Append(failedRecords, entry)
                 /\ UNCHANGED dbPages
                 /\ pc' = AfterWriteError(CreateLoopNext(i, Len(recordsToAdd), failedRecords').pc)
              \/ /\ notionEnv.lostReplies
                 /\ NotionAccepts(dbSchema, payload)
                 /\ Log([Call("create", entry, 1, FALSE, Len(dbPages) + 1, DOMAIN data[entry], payload)
                          EXCEPT !.children = children])
                 /\ dbPages' = Append(dbPages, created)
                 /\ failedRecords' = Append(failedRecords, entry)
                 /\ pc' = AfterWriteError(CreateLoopNext(i, Len(recordsToAdd), failedRecords').pc)
        /\ i' = CreateLoopNext(i, Len(recordsToAdd), failedRecords').i
  /\ UNCHANGED <<inputs, dbSchema, run, pagesAtStart, sync, scan, batches, stillFailedRecords>>

\* one iteration of the retry loop of addNonDuplicateRecords
RetryRecord ==
  /\ pc = "retry"
  /\ LET batch == RetryBatch(failedRecords, recordsToAdd)
         entry == batch[i]
         payload == buildPagePayload(data[entry], selectedProperties)
         children == buildPageChildren(data[entry], selectedProperties)
         next == IF i < Len(batch) THEN "retry" ELSE "done"
     IN /\ \/ /\ NotionAccepts(dbSchema, payload)
              /\ Log([Call("create", entry, 2, TRUE, Len(dbPages) + 1, DOMAIN data[entry], payload)
                       EXCEPT !.children = children])
              /\ dbPages' = Append(dbPages, [id |-> Len(dbPages) + 1, src |-> entry,
                                             properties |-> StoredProperties(payload)])
              /\ UNCHANGED stillFailedRecords
              /\ pc' = next
           \/ /\ Log([Call("create", entry, 2, FALSE, 0, DOMAIN data[entry], payload)
                       EXCEPT !.children = children])
              /\ stillFailedRecords' = Append(stillFailedRecords, entry)
              /\ UNCHANGED dbPages
              /\ pc' = AfterWriteError(next)
           \/ /\ notionEnv.lostReplies
              /\ NotionAccepts(dbSchema, payload)
              /\ Log([Call("create", entry, 2, FALSE, Len(dbPages) + 1, DOMAIN data[entry], payload)
                       EXCEPT !.children = children])
              /\ dbPages' = Append(dbPages, [id |-> Len(dbPages) + 1, src |-> entry,
                                             properties |-> StoredProperties(payload)])
              /\ stillFailedRecords' = Append(stillFailedRecords, entry)
              /\ pc' = AfterWriteError(next)
        /\ i' = IF i < Len(batch) THEN i + 1 ELSE 1
  /\ UNCHANGED <<inputs, dbSchema, run, pagesAtStart, sync, scan, batches, failedRecords>>

\* the importer is started again on the same source and destination
Rerun ==
  /\ pc = "done"
  /\ run < MaxRuns
  /\ run' = run + 1
  /\ pagesAtStart' = Len(dbPages)
  /\ pc' = "main"
  /\ selectedProperties' = <<>>
  /\ currentProps' = <<>>
  /\ newProps' = <<>>
  /\ newProperties' = <<>>
  /\ allRecords' = <<>>
  /\ hasMore' = TRUE
  /\ startCursor' = 0
  /\ typeMap' = <<>>
  /\ existingMaps' = <<>>
  /\ duplicatesToUpdate' = <<>>
  /\ recordsToAdd' = <<>>
  /\ i' = 1
  /\ failedRecords' = <<>>
  /\ stillFailedRecords' = <<>>
  /\ calls' = <<>>
  /\ UNCHANGED <<inputs, dbSchema, dbPages, faults>>

\* one run of the Mongo importer with the automatic mapping, any duplicate
\* policy (exportToNotion and its helpers are the same code in both importers)
Init == InitWith({"mongo"}, {"1"}, DuplicateAnswers)

Next ==
  \/ MainMapProperties
  \/ EnsureRetrieve
  \/ EnsureUpdate
  \/ ExportNone
  \/ FetchAllRecords
  \/ ExportPartition
  \/ UpdateRecord
  \/ CreateRecord
  \/ RetryRecord

Spec == Init /\ [][Next]_vars

\* either importer, with or without customization, run repeatedly with
\* policy "skip" on the same source
InitSkip == InitWith(Importers, MapAnswers, {"1"})

NextSkip ==
  \/ MainMapProperties
  \/ EnsureRetrieve
  \/ EnsureUpdate
  \/ FetchAllRecords
  \/ ExportPartition
  \/ CreateRecord
  \/ RetryRecord
  \/ Rerun

SpecSkip == InitSkip /\ [][NextSkip]_vars

\* destination schemas for the mapping: the title property may carry the
\* name of any header or a name of its own
SchemaChoices ==
  {[name |-> "title"],
   [name |-> "title", email |-> "rich_text"],
   [name |-> "title", email |-> "email", tel |-> "phone_number"],
   [email |-> "title", tel |-> "rich_text"],
   [Nombre |-> "title", name |-> "rich_text"]}

\* main up to the end of ensurePropertiesExist: either importer, any title
\* field, any answer to the mapping prompts, on an empty destination
InitSchema ==
  /\ importer \in Importers
  /\ data \in SourceData
  /\ headers = readHeaders(importer, data)
  /\ titleField \in Range(headers)
  /\ duplicateCheckFields = MainKeyFields(<<>>, "3", headers)
  /\ duplicateOption = MainDuplicateOption("3", duplicateCheckFields)
  /\ mapOption \in MapAnswers
  /\ answers = [duplicate |-> "3", keyFields |-> <<>>, map |-> mapOption]
  /\ notionEnv = ReliableNotion
  /\ overrides \in IF mapOption = "2" THEN CustomizationChoices ELSE {NoOverride}
  /\ dbSchema \in SchemaChoices
  /\ dbPages = <<>>
  /\ run = 1
  /\ pagesAtStart = Len(dbPages)
  /\ faults = FALSE
  /\ RunStart

NextSchema ==
  \/ MainMapProperties
  \/ EnsureRetrieve
  \/ EnsureUpdate

SpecSchema == InitSchema /\ [][NextSchema]_vars

\* documents with two key fields and a field the destination does not have:
\* a key value may be present, null or missing
FieldRecords ==
  {[name |-> TitleValue, email |-> Str("a"), tel |-> Str("t"), note |-> Str("x")],
   [name |-> TitleValue, email |-> Null, tel |-> Str("t"), note |-> Str("x")],
   [name |-> TitleValue, email |-> Str("a"), note |-> Str("x")],
   [name |-> TitleValue, email |-> Str("b"), tel |-> Null, note |-> Str("x")]}

FieldData == UNION {[1..n -> FieldRecords] : n \in 1..MaxRecords}

\* key fields in the order entered at the prompt
KeyFieldOrders == {<<"email", "tel">>, <<"tel", "email">>}

\* the second key field is a text property or a files property
FieldSchemas == {[name |-> "title", email |-> "rich_text", tel |-> tt] : tt \in {"rich_text", "files"}}

\* a destination page holds a value for one of the two key fields
FieldPageProps(schema) ==
  {[name |-> TextProperty("title", "p"),
    email |-> TextProperty(schema["email"], x[1]),
    tel |-> TextProperty(schema["tel"], x[2])] : x \in {<<"a", "">>, <<"", "t">>}}

FieldPages(schema) ==
  UNION {{[k \in 1..n |-> [id |-> k, src |-> 0, properties |-> f[k]]] :
            f \in [1..n -> FieldPageProps(schema)]} : n \in 0..MaxPages}

\* one run of the Mongo importer with policy "2", two key fields and the
\* automatic mapping
InitFields ==
  /\ importer = "mongo"
  /\ data \in FieldData
  /\ headers = readHeaders(importer, data)
  /\ titleField = "name"
  /\ \E fields \in KeyFieldOrders :
        /\ answers = [duplicate |-> "2", keyFields |-> fields, map |-> "1"]
        /\ duplicateCheckFields = MainKeyFields(fields, "2", headers)
        /\ duplicateOption = MainDuplicateOption("2", duplicateCheckFields)
  /\ notionEnv = ReliableNotion
  /\ mapOption = "1"
  /\ overrides = NoOverride
  /\ dbSchema \in FieldSchemas
  /\ dbPages \in FieldPages(dbSchema)
  /\ run = 1
  /\ pagesAtStart = Len(dbPages)
  /\ faults = FALSE
  /\ RunStart

NextFields ==
  \/ MainMapProperties
  \/ EnsureRetrieve
  \/ EnsureUpdate
  \/ FetchAllRecords
  \/ ExportPartition
  \/ UpdateRecord
  \/ CreateRecord
  \/ RetryRecord

SpecFields == InitFields /\ [][NextFields]_vars

\* ------------------------------------------------------------------------
\* Properties
\* ------------------------------------------------------------------------
Writes == {k \in DOMAIN calls : calls[k].op \in {"create", "update"}}
CreatesOf(r) == {k \in DOMAIN calls : calls[k].op = "create" /\ calls[k].rec = r}
UpdatesOf(r) == {k \in DOMAIN calls : calls[k].op = "update" /\ calls[k].rec = r}
FirstAttempts == {k \in DOMAIN calls : calls[k].op = "create" /\ calls[k].attempt = 1}
Retries == {k \in DOMAIN calls : calls[k].op = "create" /\ calls[k].attempt = 2}

\* the scan, the index and the partition of exportToNotion are complete
Partitioned == duplicateOption \in {"1", "2"} /\ pc \in {"update", "create", "retry", "done"}

\* record r carries, for some key field, a value equal to the value extracted
\* from a scanned destination record
EqualsExtracted(r) ==
  \E f \in Range(duplicateCheckFields), k \in DOMAIN allRecords :
     /\ HasValue(data[r], f)
     /\ f \in DOMAIN allRecords[k].properties
     /\ typeMap[f] # NoType
     /\ String(data[r][f]) = ExtractedValue(importer, allRecords[k], f, typeMap)

EqualsNonEmptyExtracted(r) ==
  \E f \in Range(duplicateCheckFields), k \in DOMAIN allRecords :
     /\ HasValue(data[r], f)
     /\ ExtractedValue(importer, allRecords[k], f, typeMap) # ""
     /\ String(data[r][f]) = ExtractedValue(importer, allRecords[k], f, typeMap)

\* C1 as stated: under policy "skip" a record whose key value equals the
\* extracted value of an existing destination record gets no create and no
\* update call.
C1_SkipNoWriteOnEqualValue ==
  (Partitioned /\ duplicateOption = "1") =>
     \A r \in DOMAIN data : EqualsExtracted(r) => CreatesOf(r) \cup UpdatesOf(r) = {}

\* C1 amended: under policy "skip" a record whose key value equals the
\* non-empty extracted value of an existing destination record gets no create
\* and no update call; when every record matches so, the run issues no write.
C1_SkipNoWriteOnMatch ==
  (Partitioned /\ duplicateOption = "1") =>
     /\ \A r \in DOMAIN data :
           EqualsNonEmptyExtracted(r) => CreatesOf(r) \cup UpdatesOf(r) = {}
     /\ (\A r \in DOMAIN data : EqualsNonEmptyExtracted(r)) => Writes = {}

C1_Witness ==
  /\ pc = "done"
  /\ duplicateOption = "1"
  /\ Len(data) = 2
  /\ \A r \in DOMAIN data : EqualsNonEmptyExtracted(r)
  /\ Writes = {}

\* a field of the newly-created set has a value on record r that is not
\* undefined, not null and not the empty string
CarriesNewValue(r) ==
  \E p \in Range(newProperties) :
     p \in DOMAIN data[r] /\ data[r][p] # Null /\ data[r][p] # Str("")

\* C2: under policy "updateNewOnly" a duplicate gets an update call iff a
\* field of the newly-created set has a non-null, non-empty value on it, and
\* it never gets a create call.
C2_UpdateIffNewValue ==
  (Partitioned /\ duplicateOption = "2") =>
     \A r \in DOMAIN data :
        isDuplicate(data[r], duplicateCheckFields, existingMaps) =>
           /\ CreatesOf(r) = {}
           /\ UpdatesOf(r) # {} => CarriesNewValue(r)
           /\ (pc = "done" /\ CarriesNewValue(r)) => UpdatesOf(r) # {}

C2_Witness ==
  /\ pc = "done"
  /\ duplicateOption = "2"
  /\ \E r1, r2 \in DOMAIN data :
        /\ isDuplicate(data[r1], duplicateCheckFields, existingMaps)
        /\ isDuplicate(data[r2], duplicateCheckFields, existingMaps)
        /\ UpdatesOf(r1) # {}
        /\ "tel" \in DOMAIN data[r2]
        /\ CreatesOf(r2) \cup UpdatesOf(r2) = {}

\* C3: an update call of the updateNewOnly policy carries properties only
\* for fields of the newly-created set: no other field of the record is in
\* the payload.
C3_UpdateOnlyNewFields ==
  \A k \in DOMAIN calls :
     calls[k].op = "update" =>
        /\ calls[k].fields \subseteq Range(newProperties)
        /\ DOMAIN calls[k].props = {selectedProperties[h].name : h \in calls[k].fields}
        /\ \A h \in DOMAIN data[calls[k].rec] \ Range(newProperties) :
              selectedProperties[h].name \notin DOMAIN calls[k].props

C3_Witness ==
  \E k \in DOMAIN calls :
     /\ calls[k].op = "update"
     /\ calls[k].ok
     /\ DOMAIN calls[k].props = {"tel"}
     /\ {"name", "email", "tel"} \subseteq DOMAIN data[calls[k].rec]

\* C4: with policy "skip", a second run on the same source leaves the number
\* of destination records as the first run left it (stated for runs in which
\* no destination call fails).
C4_SkipIdempotent ==
  (run = 2 /\ pc = "done" /\ duplicateOption = "1" /\ ~faults) =>
     Len(dbPages) = pagesAtStart

\* C5: with policy "none" every record goes to the create path in source
\* order; no update, no skip and no destination scan happen.
C5_NoneCreatesAll ==
  duplicateOption = "3" =>
     /\ \A k \in DOMAIN calls : calls[k].op \notin {"query", "exportRetrieve", "update"}
     /\ duplicatesToUpdate = <<>>
     /\ pc \in {"create", "retry", "done"} => recordsToAdd = [k \in 1..Len(data) |-> k]
     /\ \A k \in FirstAttempts :
           calls[k].rec = Cardinality({j \in FirstAttempts : j <= k})
     /\ pc \in {"retry", "done"} => Cardinality(FirstAttempts) = Len(data)

C5_Witness ==
  /\ pc = "done"
  /\ duplicateOption = "3"
  /\ Len(data) = 2
  /\ \A r \in DOMAIN data : \E k \in CreatesOf(r) : calls[k].ok
  /\ \E r \in DOMAIN data, j \in 1..pagesAtStart :
        /\ "email" \in DOMAIN dbPages[j].properties
        /\ HasValue(data[r], "email")
        /\ Join(dbPages[j].properties["email"].segs) = String(data[r]["email"])
        /\ String(data[r]["email"]) # ""

\* the scanned records whose extracted value for key field f is v
ScannedWith(f, v) ==
  {k \in DOMAIN allRecords : ExtractedValue(importer, allRecords[k], f, typeMap) = v}

\* C6 as stated: the index maps a value to the first scanned record that
\* holds it.
C6_IndexKeepsFirst ==
  Partitioned =>
     \A f \in Range(duplicateCheckFields) : \A v \in DOMAIN existingMaps[f] :
        \E k \in ScannedWith(f, v) :
           /\ \A j \in ScannedWith(f, v) : k <= j
           /\ existingMaps[f][v] = allRecords[k].id

\* C6 amended: the index maps a value to the last scanned record that holds
\* it (every later record with the same value replaces the entry), and a
\* matching source record is updated against that record.
C6_IndexKeepsLast ==
  Partitioned =>
     /\ \A f \in Range(duplicateCheckFields) : \A v \in DOMAIN existingMaps[f] :
           \E k \in ScannedWith(f, v) :
              /\ \A j \in ScannedWith(f, v) : j <= k
              /\ existingMaps[f][v] = allRecords[k].id
     /\ \A c \in Range(calls) :
           c.op = "update" =>
              \E f \in Range(duplicateCheckFields) :
                 /\ HasValue(data[c.rec], f)
                 /\ ScannedWith(f, String(data[c.rec][f])) # {}
                 /\ \A j \in ScannedWith(f, String(data[c.rec][f])) : allRecords[j].id <= c.page

C6_Witness ==
  /\ Partitioned
  /\ \E f \in Range(duplicateCheckFields) : \E v \in DOMAIN existingMaps[f] :
        Cardinality(ScannedWith(f, v)) >= 2
  /\ \E c \in Range(calls) : c.op = "update" /\ c.page = 2

EnsureFailures ==
  {k \in DOMAIN calls : calls[k].op \in {"ensureRetrieve", "schemaUpdate"} /\ ~calls[k].ok}

C8_RetryOncePerFailure ==
  /\ \A r \in DOMAIN data :
        /\ Cardinality(CreatesOf(r) \cap FirstAttempts) <= 1
        /\ Cardinality(CreatesOf(r) \cap Retries) <= 1
        /\ \A k \in CreatesOf(r) \cap Retries :
              \E j \in CreatesOf(r) \cap FirstAttempts : j < k /\ ~calls[j].ok
  /\ \A k \in Retries :
        /\ \A j \in FirstAttempts : j < k
        /\ Cardinality(FirstAttempts) = Len(recordsToAdd)
  /\ pc = "done" =>
        \A r \in Range(recordsToAdd) :
           /\ (\E j \in CreatesOf(r) \cap FirstAttempts : ~calls[j].ok)
                 => CreatesOf(r) \cap Retries # {}
           /\ \A k \in CreatesOf(r) \cap Retries :
                 IF calls[k].ok
                 THEN /\ r \notin Range(stillFailedRecords)
                      /\ calls[k].page \in DOMAIN dbPages
                      /\ dbPages[calls[k].page].src = r
                 ELSE /\ r \in Range(stillFailedRecords)
                      /\ \A j \in pagesAtStart + 1 .. Len(dbPages) : dbPages[j].src # r

C8_Witness ==
  /\ pc = "done"
  /\ \E r1, r2 \in Range(recordsToAdd) :
        /\ \E k \in CreatesOf(r1) \cap Retries : calls[k].ok
        /\ \E k \in CreatesOf(r2) \cap Retries : ~calls[k].ok

\* position of record r in the create batch
BatchPosition(r) == CHOOSE a \in DOMAIN recordsToAdd : recordsToAdd[a] = r

\* C9 as stated: if the first create attempt of r1 fails, the retry of r1
\* happens before the first attempt of any later record r2 of the batch.
C9_RetryBeforeNextRecord ==
  \A k1, k2 \in FirstAttempts :
     (BatchPosition(calls[k1].rec) < BatchPosition(calls[k2].rec) /\ ~calls[k1].ok) =>
        \E k \in Retries : calls[k].rec = calls[k1].rec /\ k < k2

\* C9 amended: if the first create attempt of r1 fails, the retry of r1
\* happens after the first attempt of every later record r2 of the batch.
C9_RetryAfterLaterRecords ==
  \A k \in Retries :
     \A b \in DOMAIN recordsToAdd :
        BatchPosition(calls[k].rec) < b =>
           \E k2 \in FirstAttempts : calls[k2].rec = recordsToAdd[b] /\ k2 < k

C9_Witness ==
  \E k1, k2 \in FirstAttempts, k \in Retries :
     /\ BatchPosition(calls[k1].rec) < BatchPosition(calls[k2].rec)
     /\ ~calls[k1].ok
     /\ calls[k].rec = calls[k1].rec
     /\ k1 < k2 /\ k2 < k

\* C10: a failed create or update never aborts the run: the fatal handler
\* is reached only before any write, and a run that completes has given
\* every record of both batches its write attempt.
C10_WriteFailureNeverAborts ==
  /\ pc = "fatal" => Writes = {}
  /\ Writes # {} => pc \in {"update", "create", "retry", "done"}
  /\ pc = "done" =>
        /\ \A a \in DOMAIN duplicatesToUpdate : UpdatesOf(duplicatesToUpdate[a].entry) # {}
        /\ \A r \in Range(recordsToAdd) : CreatesOf(r) \cap FirstAttempts # {}

C10_Witness ==
  /\ pc = "done"
  /\ \E k \in DOMAIN calls : calls[k].op = "update" /\ ~calls[k].ok
  /\ \E r \in Range(recordsToAdd) : \A k \in CreatesOf(r) : ~calls[k].ok
  /\ recordsToAdd # <<>>

\* ------------------------------------------------------------------------
\* Property Mapper and Schema Synchronizer
\* ------------------------------------------------------------------------
TitleHeaders == {h \in DOMAIN selectedProperties : selectedProperties[h].type = "title"}

\* mapProperties has returned and ensurePropertiesExist has not yet run
Mapped == pc = "ensure"

\* C11: with customization disabled a header is mapped to type title iff it
\* is the title field (so exactly one header is), every other header gets the
\* type of the same-named destination property or rich_text, and every
\* header keeps its name.
C11_DefaultMapping ==
  (Mapped /\ mapOption = "1") =>
     /\ DOMAIN selectedProperties = Range(headers)
     /\ \A h \in Range(headers) :
           /\ selectedProperties[h].type = "title" <=> h = titleField
           /\ h # titleField =>
                 selectedProperties[h].type =
                    IF h \in DOMAIN dbSchema THEN dbSchema[h] ELSE "rich_text"
           /\ selectedProperties[h].name = h
     /\ Cardinality(TitleHeaders) = 1

\* C12: with customization enabled exactly one property of the mapping has
\* type title, whatever overrides were entered.
C12_ExactlyOneTitle ==
  (Mapped /\ mapOption = "2") =>
     Cardinality({selectedProperties[h].name : h \in TitleHeaders}) = 1

SchemaUpdates == {k \in DOMAIN calls : calls[k].op = "schemaUpdate"}
SchemaRead == \E k \in DOMAIN calls : calls[k].op = "ensureRetrieve" /\ calls[k].ok
MappedNames == {selectedProperties[h].name : h \in Range(headers)}

\* mapped names absent from the schema read by ensurePropertiesExist
ToAdd == MappedNames \ DOMAIN currentProps

\* mapped names present in that schema with a different type
ToRetype ==
  {selectedProperties[h].name :
     h \in {x \in Range(headers) :
              /\ selectedProperties[x].name \in DOMAIN currentProps
              /\ currentProps[selectedProperties[x].name] # selectedProperties[x].type}}

\* C13: the to-add and to-retype sets are disjoint; one schema-update request
\* covering exactly their union is issued when one of them is non-empty, and
\* none when both are empty (or when the schema read failed).
C13_OneBatchedSchemaUpdate ==
  /\ Cardinality(SchemaUpdates) <= 1
  /\ SchemaUpdates # {} => SchemaRead
  /\ SchemaRead =>
        /\ ToAdd \cap ToRetype = {}
        /\ \A k \in SchemaUpdates :
              calls[k].fields = ToAdd \cup ToRetype /\ calls[k].fields # {}
        /\ pc = "ensureUpdate" => ToAdd \cup ToRetype # {}
        /\ pc = "export" => (SchemaUpdates # {} <=> ToAdd \cup ToRetype # {})

C13_Witness ==
  /\ pc = "export"
  /\ ToAdd # {}
  /\ ToRetype # {}
  /\ \E k \in SchemaUpdates : calls[k].ok /\ calls[k].fields = ToAdd \cup ToRetype

Hits(r, k) ==
  /\ HasValue(data[r], duplicateCheckFields[k])
  /\ String(data[r][duplicateCheckFields[k]]) \in DOMAIN existingMaps[duplicateCheckFields[k]]

FirstHits(r) ==
  {k \in DOMAIN duplicateCheckFields : Hits(r, k) /\ \A j \in 1..(k - 1) : ~Hits(r, j)}

HitPage(r, k) == existingMaps[duplicateCheckFields[k]][String(data[r][duplicateCheckFields[k]])]

\* C15: the first key field, in the order entered, that the record has a
\* value for and whose stringified value is in the index decides: the record
\* is a duplicate of the destination record indexed there, whatever later key
\* fields would match; a record without such a field is new.
C15_FirstKeyWins ==
  Partitioned =>
     \A r \in DOMAIN data :
        /\ FirstHits(r) = {} => r \in Range(recordsToAdd)
        /\ \A k \in FirstHits(r) :
              /\ r \notin Range(recordsToAdd)
              /\ \A a \in DOMAIN duplicatesToUpdate :
                    duplicatesToUpdate[a].entry = r =>
                       duplicatesToUpdate[a].recordId = HitPage(r, k)
              /\ \A c \in UpdatesOf(r) : calls[c].page = HitPage(r, k)

C15_Witness ==
  /\ Partitioned
  /\ Len(duplicateCheckFields) = 2
  /\ \E r \in DOMAIN data :
        /\ Hits(r, 1) /\ Hits(r, 2)
        /\ HitPage(r, 1) # HitPage(r, 2)
        /\ \E c \in UpdatesOf(r) : calls[c].ok /\ calls[c].page = HitPage(r, 1)
  /\ \E r \in DOMAIN data :
        /\ ~HasValue(data[r], duplicateCheckFields[1])
        /\ Hits(r, 2)
        /\ UpdatesOf(r) # {}

\* ------------------------------------------------------------------------
\* Auxiliary blocks
\* ------------------------------------------------------------------------
\* the fields of record r mapped to type files with a non-empty string value
FilesFields(r) ==
  {h \in DOMAIN data[r] :
     /\ selectedProperties[h].type = "files"
     /\ HasValue(data[r], h)
     /\ String(data[r][h]) # ""}

\* C20: a create call carries one image block for each field mapped to type
\* files whose string value is non-empty, with the URL of that field's files
\* property, and no other block; an update call carries no block.
C20_ImageBlockPerFilesValue ==
  \A k \in DOMAIN calls :
     /\ calls[k].op = "create" =>
           LET blocks == calls[k].children
           IN /\ Len(blocks) = Cardinality(FilesFields(calls[k].rec))
              /\ {blocks[b].field : b \in DOMAIN blocks} = FilesFields(calls[k].rec)
              /\ \A b \in DOMAIN blocks :
                    /\ blocks[b].type = "image"
                    /\ blocks[b].url # ""
                    /\ calls[k].props[selectedProperties[blocks[b].field].name] =
                          [kind |-> "files", s |-> blocks[b].url]
     /\ calls[k].op = "update" => calls[k].children = <<>>

C20_Witness ==
  /\ pc = "done"
  /\ \E k \in DOMAIN calls :
        /\ calls[k].op = "create" /\ calls[k].ok
        /\ Len(calls[k].children) = 1
        /\ calls[k].children[1].url = "t"
  /\ \E k \in DOMAIN calls :
        /\ calls[k].op = "create" /\ calls[k].ok
        /\ "tel" \in DOMAIN calls[k].props
        /\ calls[k].props["tel"].kind = "files"
        /\ calls[k].children = <<>>

\* ------------------------------------------------------------------------
\* Write batches
\* ------------------------------------------------------------------------
Updates == {k \in DOMAIN calls : calls[k].op = "update"}
Creates == {k \in DOMAIN calls : calls[k].op = "create"}
Scans == {k \in DOMAIN calls : calls[k].op \in {"query", "exportRetrieve"}}

\* C16: with policy skip or updateNewOnly the update calls follow the source
\* order of the records to update, the first-pass create calls follow the
\* source order of the records to create, and every update of the run comes
\* before the first create.
C16_UpdatesThenCreatesInOrder ==
  duplicateOption \in {"1", "2"} =>
     /\ \A k1, k2 \in Updates : k1 < k2 => calls[k1].rec < calls[k2].rec
     /\ \A k1, k2 \in FirstAttempts : k1 < k2 => calls[k1].rec < calls[k2].rec
     /\ \A u \in Updates, c \in Creates : u < c
     /\ Creates # {} =>
           \A a \in DOMAIN duplicatesToUpdate : UpdatesOf(duplicatesToUpdate[a].entry) # {}

C16_Witness ==
  /\ pc = "done"
  /\ duplicateOption = "2"
  /\ \E u \in Updates, c \in Creates : u < c /\ calls[c].rec < calls[u].rec

\* record r has, for every key field it has a value for, a value that no
\* scanned destination record holds
KeyAbsentAtScan(r) ==
  \A f \in Range(duplicateCheckFields) :
     HasValue(data[r], f) => ScannedWith(f, String(data[r][f])) = {}

\* C17: the index comes from a scan that is complete before the first write
\* and holds only records that existed then; no write of the run changes it,
\* so every record whose key values were absent at scan time is created, also
\* when an earlier record of the source carries the same key value.
C17_IndexFixedBeforeWrites ==
  Partitioned =>
     /\ \A q \in Scans, w \in Writes : q < w
     /\ Len(allRecords) = pagesAtStart
     /\ existingMaps = existingValuesMap(importer, allRecords, duplicateCheckFields, typeMap)
     /\ \A f \in Range(duplicateCheckFields) : \A v \in DOMAIN existingMaps[f] :
           existingMaps[f][v] \in 1..pagesAtStart
     /\ \A r \in DOMAIN data :
           KeyAbsentAtScan(r) =>
              /\ r \in Range(recordsToAdd)
              /\ pc \in {"retry", "done"} => CreatesOf(r) # {}

C17_Witness ==
  /\ pc = "done"
  /\ duplicateOption = "1"
  /\ Len(data) = 2
  /\ HasValue(data[1], "email") /\ String(data[1]["email"]) = "a"
  /\ data[2]["email"] = data[1]["email"]
  /\ \A r \in DOMAIN data : KeyAbsentAtScan(r) /\ \E k \in CreatesOf(r) : calls[k].ok
  /\ Len(dbPages) = pagesAtStart + 2
  /\ existingMaps["email"] = <<>>

\* C18: every record of the update batch gets exactly one update call; a
\* failed update is not repeated, so a finished update pass has issued as
\* many update calls as the batch has records.
C18_OneUpdatePerRecord ==
  /\ \A r \in DOMAIN data : Cardinality(UpdatesOf(r)) <= 1
  /\ \A k \in Updates :
        \E a \in DOMAIN duplicatesToUpdate :
           duplicatesToUpdate[a].entry = calls[k].rec /\ duplicatesToUpdate[a].recordId = calls[k].page
  /\ Cardinality(Updates) <= Len(duplicatesToUpdate)
  /\ pc \in {"create", "retry", "done"} => Cardinality(Updates) = Len(duplicatesToUpdate)

C18_Witness ==
  /\ pc = "done"
  /\ Len(duplicatesToUpdate) = 2
  /\ Cardinality(Updates) = 2
  /\ \E k \in Updates : ~calls[k].ok
  /\ \E k \in Updates : calls[k].ok

\* final outcomes of the records of the run
Created == {r \in DOMAIN data : \E k \in CreatesOf(r) : calls[k].ok}
Updated == {r \in DOMAIN data : \E k \in UpdatesOf(r) : calls[k].ok}
Failed ==
  {r \in DOMAIN data : CreatesOf(r) \cup UpdatesOf(r) # {}} \ (Created \cup Updated)

\* C19: a run that reaches the write phase ends with counts that equal the
\* outcomes: the numbers the run prints for the records to add and to update
\* are the numbers of created and updated records, and it flags failed
\* records exactly when some record failed.
C19_ReportedCountsMatchOutcomes ==
  (pc = "done" /\ duplicateOption \in {"1", "2"}) =>
     LET report == RunReport(duplicatesToUpdate, recordsToAdd, stillFailedRecords)
     IN /\ report.toAdd = Cardinality(Created)
        /\ report.toUpdate = Cardinality(Updated)
        /\ report.exportWarning <=> Failed # {}

\* ------------------------------------------------------------------------
\* The payload and extraction functions applied to bounded arguments
\* ------------------------------------------------------------------------
MaxTokens == 3

TagNames == {"", "a", "b", "c"}
Pads == {"", " "}

\* a tag name written with optional blanks around it
Tokens == [pre : Pads, name : TagNames, post : Pads]

TokenText(t) == t.pre \o t.name \o t.post

TokenLists == UNION {[1..n -> Tokens] : n \in 1..MaxTokens}

\* the cell text a list of tokens is written as: the tokens separated by commas
ListText(tokens) == JoinWith([k \in DOMAIN tokens |-> TokenText(tokens[k])], ",")

ExtractTypes == {"title", "rich_text", "url", "phone_number", "email", "number",
                 "select", "status", "multi_select", "checkbox"}

\* property objects of a page of the destination, by type
PropertyValues(type) ==
  CASE type \in {"title", "rich_text", "multi_select"} ->
         {[type |-> type, segs |-> segs, s |-> NoValue] : segs \in {<<>>, <<"a">>, <<"a", "b">>}}
    [] type = "checkbox" ->
         {[type |-> type, segs |-> <<>>, s |-> b] : b \in {"true", "false"}}
    [] type = "number" ->
         {[type |-> type, segs |-> <<>>, s |-> n] : n \in {NoValue, "0", "1"}}
    [] OTHER ->
         {[type |-> type, segs |-> <<>>, s |-> v] : v \in {NoValue, "a"}}

PayloadProbes ==
  {[fn |-> "buildPropertyPayload", propertyType |-> type, tokens |-> tokens,
    stringValue |-> ListText(tokens)] :
     type \in {"multi_select", "select"}, tokens \in TokenLists}

ValueProbes ==
  UNION {{[fn |-> "getPropertyValue", type |-> type, property |-> property] :
            property \in PropertyValues(type)} : type \in ExtractTypes}

\* no run of an importer: one function is applied to one argument list
InitFunctions ==
  /\ importer = "mongo"
  /\ data = <<>>
  /\ headers = <<>>
  /\ titleField = "name"
  /\ duplicateOption = "3"
  /\ duplicateCheckFields = <<>>
  /\ mapOption = "1"
  /\ overrides = NoOverride
  /\ answers = [duplicate |-> "3", keyFields |-> <<>>, map |-> "1"]
  /\ notionEnv = ReliableNotion
  /\ dbSchema = [name |-> "title"]
  /\ dbPages = <<>>
  /\ run = 1
  /\ pagesAtStart = 0
  /\ faults = FALSE
  /\ pc = "apply"
  /\ probe \in PayloadProbes \cup ValueProbes
  /\ result = NoResult
  /\ selectedProperties = <<>>
  /\ currentProps = <<>>
  /\ newProps = <<>>
  /\ newProperties = <<>>
  /\ allRecords = <<>>
  /\ hasMore = TRUE
  /\ startCursor = 0
  /\ typeMap = <<>>
  /\ existingMaps = <<>>
  /\ duplicatesToUpdate = <<>>
  /\ recordsToAdd = <<>>
  /\ i = 1
  /\ failedRecords = <<>>
  /\ stillFailedRecords = <<>>
  /\ calls = <<>>

run_state == <<importer, data, headers, titleField, duplicateOption, duplicateCheckFields,
               mapOption, overrides, answers, notionEnv, dbSchema, dbPages, run,
               pagesAtStart, sync, scan, batches, loops, calls, faults>>

ApplyBuildPropertyPayload ==
  /\ pc = "apply"
  /\ probe.fn = "buildPropertyPayload"
  /\ result' = [fn |-> probe.fn,
                payload |-> buildPropertyPayload(probe.propertyType, probe.stringValue),
                tags |-> IF probe.propertyType = "multi_select"
                         THEN multiSelectTags(probe.stringValue) ELSE <<>>]
  /\ pc' = "applied"
  /\ UNCHANGED <<probe, run_state>>

ApplyGetPropertyValue ==
  /\ pc = "apply"
  /\ probe.fn = "getPropertyValue"
  /\ result' = [fn |-> probe.fn,
                mongo |-> getPropertyValueMongo(probe.property, probe.type),
                excel |-> getPropertyValueExcel(probe.property, probe.type)]
  /\ pc' = "applied"
  /\ UNCHANGED <<probe, run_state>>

NextFunctions == ApplyBuildPropertyPayload \/ ApplyGetPropertyValue

SpecFunctions == InitFunctions /\ [][NextFunctions]_vars

\* C21: for a multi_select field buildPropertyPayload produces one tag per
\* comma-separated token of the value, in order, each without its leading
\* and trailing blanks; "a, b , c" gives the tags a, b, c
C21_MultiSelectTags ==
  (result.fn = "buildPropertyPayload" /\ probe.propertyType = "multi_select") =>
     /\ result.payload.kind = "multi_select"
     /\ result.tags = [k \in DOMAIN probe.tokens |-> probe.tokens[k].name]
     /\ probe.stringValue = "a, b , c" => result.tags = <<"a", "b", "c">>

C21_Witness ==
  /\ result.fn = "buildPropertyPayload"
  /\ probe.propertyType = "multi_select"
  /\ probe.stringValue = "a, b , c"
  /\ result.tags = <<"a", "b", "c">>

\* C23: for every property value and every type among title, rich_text, url,
\* phone_number, email, number, select, status, multi_select and checkbox the
\* getPropertyValue of the Mongo importer and that of the Excel importer
\* return the same string
C23_SameExtraction ==
  result.fn = "getPropertyValue" => result.mongo = result.excel

\* ------------------------------------------------------------------------
\* One run against a destination that pages its query results and may lose
\* the reply to a create request
\* ------------------------------------------------------------------------
DestinationRecords == {r \in SourceRecords : r["tel"] = Str("t")}

DestinationData == UNION {[1..n -> DestinationRecords] : n \in 1..MaxRecords}

\* results per response: one, or as many as page_size asks for
ResponseLimits == {1, PAGE_SIZE}

\* the Mongo importer with the automatic mapping, policy 1 or 2 on the key
\* field email
InitDestination ==
  /\ importer = "mongo"
  /\ data \in DestinationData
  /\ headers = readHeaders(importer, data)
  /\ titleField = "name"
  /\ mapOption = "1"
  /\ \E option \in {"1", "2"} :
        /\ answers = [duplicate |-> option, keyFields |-> <<"email">>, map |-> mapOption]
        /\ duplicateCheckFields = MainKeyFields(<<"email">>, option, headers)
        /\ duplicateOption = MainDuplicateOption(option, duplicateCheckFields)
  /\ overrides = NoOverride
  /\ notionEnv \in [responseLimit : ResponseLimits, lostReplies : BOOLEAN]
  /\ dbSchema \in InitialSchemas
  /\ dbPages \in InitialPages(dbSchema)
  /\ run = 1
  /\ pagesAtStart = Len(dbPages)
  /\ faults = FALSE
  /\ RunStart

NextDestination ==
  \/ MainMapProperties
  \/ EnsureRetrieve
  \/ EnsureUpdate
  \/ FetchAllRecords
  \/ ExportPartition
  \/ UpdateRecord
  \/ CreateRecord
  \/ RetryRecord

SpecDestination == InitDestination /\ [][NextDestination]_vars

\* the types the getPropertyValue of the Mongo importer has a case for
MongoExtractedTypes == {"url", "phone_number", "rich_text", "title"}

Indexed == pc \in {"update", "create", "retry", "done"} /\ typeMap # <<>>

NotExtracted(f) == typeMap[f] = NoType \/ typeMap[f] \notin MongoExtractedTypes

\* C22: a key field whose destination property is missing from the schema or
\* has a type that value extraction does not support has no entry in the
\* index, the index never has the empty string as a key, and a record is
\* classified as a duplicate only through an extracted, non-empty key value
C22_NoEntryWithoutExtraction ==
  Indexed =>
     /\ \A f \in Range(duplicateCheckFields) :
           /\ NotExtracted(f) => existingMaps[f] = <<>>
           /\ "" \notin DOMAIN existingMaps[f]
     /\ \A r \in DOMAIN data :
           r \notin Range(recordsToAdd) =>
              \E f \in Range(duplicateCheckFields) :
                 /\ ~NotExtracted(f)
                 /\ HasValue(data[r], f)
                 /\ String(data[r][f]) # ""
                 /\ String(data[r][f]) \in DOMAIN existingMaps[f]

\* a page holds a under an email property, which the Mongo importer does not
\* extract: the record with email a is in the create batch
C22_Witness ==
  /\ Indexed
  /\ typeMap["email"] = "email"
  /\ \E k \in DOMAIN allRecords : allRecords[k].properties["email"].s = "a"
  /\ \E r \in Range(recordsToAdd) : data[r]["email"] = Str("a")
  /\ existingMaps["email"] = <<>>

ReadFailed == \E k \in DOMAIN calls : calls[k].op \in {"query", "exportRetrieve"} /\ ~calls[k].ok

\* C25: under policy 1 or 2, when a page query of the scan or the schema
\* read after it fails, the error reaches the handler of main and the run
\* issues no create call and no update call
C25_ReadFailureIsFatal ==
  (duplicateOption \in {"1", "2"} /\ ReadFailed) =>
     /\ pc = "fatal"
     /\ \A k \in DOMAIN calls : calls[k].op \notin {"create", "update"}

\* the query for the second page of results fails
C25_Witness ==
  /\ pc = "fatal"
  /\ duplicateOption \in {"1", "2"}
  /\ calls # <<>>
  /\ LET last == calls[Len(calls)]
     IN last.op = "query" /\ ~last.ok /\ last.cursor > 0

\* C26: no source record is created in the destination more than once in a
\* run, also when a create request is applied but reported as failed
C26_AtMostOnePagePerRecord ==
  \A r \in DOMAIN data :
     Cardinality({k \in DOMAIN dbPages : k > pagesAtStart /\ dbPages[k].src = r}) <= 1

\* ------------------------------------------------------------------------
\* The destination record scan alone: main up to the partition of the source
\* records. Every query that is issued gets its response or its error, so
\* the query loop keeps taking steps.
\* ------------------------------------------------------------------------
NextScan ==
  \/ MainMapProperties
  \/ EnsureRetrieve
  \/ EnsureUpdate
  \/ FetchAllRecords
  \/ ExportPartition

SpecScan == InitDestination /\ [][NextScan]_vars /\ WF_vars(FetchAllRecords)

Queries == SelectSeq(calls, LAMBDA c : c.op = "query")

\* the pages of the destination from the first to the n-th, as a query returns them
PagesUpTo(n) ==
  [k \in 1..n |-> [id |-> dbPages[k].id, properties |-> PageProperties(dbSchema, dbPages[k])]]

QueriesChained ==
  LET Q == Queries
  IN /\ pc = "types" => Q # <<>>
     /\ Q # <<>> => Q[1].cursor = 0
     /\ \A k \in 1..(Len(Q) - 1) :
           Q[k].ok /\ Q[k].more /\ Q[k + 1].cursor = Q[k].next
     /\ (Q # <<>> /\ pc \in {"fetch", "types"}) =>
           /\ Q[Len(Q)].ok
           /\ Q[Len(Q)].more <=> pc = "fetch"
     /\ pc = "fetch" => allRecords = PagesUpTo(startCursor)
     /\ pc = "types" => allRecords = PagesUpTo(Len(dbPages))

\* C24: fetchAllRecords issues at least one query, issues the next query with
\* the next_cursor of a response exactly when that response has has_more
\* true, returns the pages of all responses in order, and ends once a
\* response has has_more false
C24_PaginatedScanTerminates ==
  /\ []QueriesChained
  /\ (pc = "fetch") ~> (pc \in {"types", "fatal"})

\* two responses: the first with has_more, the second without
C24_Witness ==
  /\ pc = "types"
  /\ Len(Queries) = 2
  /\ Queries[1].more /\ Queries[1].next = 1
  /\ Queries[2].cursor = 1 /\ ~Queries[2].more
  /\ Len(allRecords) = 2

\* ------------------------------------------------------------------------
\* Runs of both importers on typed answers: blanks around an option, key
\* fields that are no headers, renamed properties, and a sheet with a column
\* whose header cell is empty
\* ------------------------------------------------------------------------
PromptRecords ==
  {[name |-> TitleValue, email |-> Str("a"), tel |-> Str("t")],
   [name |-> TitleValue, email |-> Str("a"), tel |-> Str("t"), __EMPTY |-> Str("z")]}

PromptData == UNION {[1..n -> PromptRecords] : n \in 1..MaxRecords}

\* answers the option prompts accept: trim(answer) is one of the options
TypedDuplicateAnswers == {"1", "2", "3", " 1", "2 "}
TypedMapAnswers == {"1", "2", " 2"}
TypedKeyFields == {<<"email">>, <<"zip">>}

RenameEmail == Rename("email", "correo")
PromptOverrides == {RenameTel, RenameEmail}

PromptSchemas ==
  {[name |-> "title", email |-> "rich_text"], [name |-> "title", correo |-> "rich_text"]}

\* the pages hold the value a under the key property of the schema
PromptPages(schema) ==
  LET key == IF "email" \in DOMAIN schema THEN "email" ELSE "correo"
      props == [p \in {"name", key} |->
                  IF p = "name" THEN TextProperty("title", "p") ELSE TextProperty("rich_text", "a")]
  IN {[k \in 1..n |-> [id |-> k, src |-> 0, properties |-> props]] : n \in 0..MaxPages}

InitPrompts ==
  /\ importer \in Importers
  /\ data \in PromptData
  /\ headers = readHeaders(importer, data)
  /\ titleField = "name"
  /\ answers \in [duplicate : TypedDuplicateAnswers, keyFields : TypedKeyFields,
                   map : TypedMapAnswers]
  /\ duplicateCheckFields = MainKeyFields(answers.keyFields,
                                          MainReadOption(importer, answers.duplicate), headers)
  /\ duplicateOption = MainDuplicateOption(MainReadOption(importer, answers.duplicate),
                                           duplicateCheckFields)
  /\ mapOption = MainReadOption(importer, answers.map)
  /\ overrides \in IF mapOption = "2" THEN PromptOverrides ELSE {NoOverride}
  /\ notionEnv = ReliableNotion
  /\ dbSchema \in PromptSchemas
  /\ dbPages \in PromptPages(dbSchema)
  /\ run = 1
  /\ pagesAtStart = Len(dbPages)
  /\ faults = FALSE
  /\ RunStart

SpecPrompts == InitPrompts /\ [][Next]_vars

\* C27: for a key field h renamed by customization, a record whose value for
\* h is held by an existing page under the property mapping[h].name is
\* detected as a duplicate
C27_IndexFollowsMapping ==
  Indexed =>
     \A r \in DOMAIN data, h \in Range(duplicateCheckFields) :
        LET mapped == selectedProperties[h].name
        IN (/\ mapped # h
            /\ HasValue(data[r], h)
            /\ mapped \in DOMAIN dbSchema
            /\ \E k \in DOMAIN allRecords :
                  getPropertyValue(importer, allRecords[k].properties[mapped], dbSchema[mapped])
                     = String(data[r][h]))
           => r \notin Range(recordsToAdd)

\* C28: a header whose mapped property was newly created counts as new for a
\* duplicate that has a value for it, also when the header was renamed: the
\* record is listed for update and the update carries the field
C28_NewPropertiesAreHeaders ==
  (Indexed /\ duplicateOption = "2") =>
     \A r \in DOMAIN data, h \in Range(headers) :
        (/\ r \notin Range(recordsToAdd)
         /\ selectedProperties[h].name \in Range(newProperties)
         /\ HasValue(data[r], h) /\ String(data[r][h]) # "")
        => \E j \in DOMAIN duplicatesToUpdate :
              /\ duplicatesToUpdate[j].entry = r
              /\ h \in Range(UpdateFields(data[r], TRUE, newProperties))

\* C29: a record with a field that has no mapping fails alone: when the run
\* has ended every other record of the create batch has had its create call
C29_UnmappedFieldFailsOneRecord ==
  pc \in {"done", "fatal"} =>
     \A r \in Range(recordsToAdd) :
        ~buildPagePayloadThrows(data[r], selectedProperties) =>
           \E k \in DOMAIN calls : calls[k].op = "create" /\ calls[k].rec = r

\* C30: the policy and the mapping option in effect are the trimmed accepted
\* answers, policy 1 or 2 without a valid key field becomes policy 3, and the
\* destination is scanned only when an entered key field is a header
C30_TrimmedAnswersTakeEffect ==
  pc = "done" =>
  LET policy == trim(answers.duplicate)
      valid == \E k \in DOMAIN answers.keyFields : answers.keyFields[k] \in Range(headers)
  IN /\ duplicateOption = IF policy \in {"1", "2"} /\ valid THEN policy ELSE "3"
     /\ (policy \in {"1", "2"} /\ valid) => duplicateCheckFields # <<>>
     /\ (\E k \in DOMAIN calls : calls[k].op = "query") => (policy \in {"1", "2"} /\ valid)
     /\ mapOption = "2" <=> trim(answers.map) = "2"


====
